---------------------------- MODULE Spec2Model ----------------------------
(***************************************************************************)
(* Model of the EventHub stack (an aws-cdk Stack subclass).                *)
(*                                                                         *)
(* The constructor declares resources one statement at a time; the         *)
(* resulting template is then applied by the provisioning engine           *)
(* (create in dependency order, delete in reverse order honouring each     *)
(* resource's removal policy), and the deployed resources process events   *)
(* (bus archive, delivery stream, partition projection of the table).      *)
(*                                                                         *)
(* Strings are TLA+ strings; a property value that embeds deploy-time      *)
(* tokens (Ref / GetAtt / pseudo parameters) is a sequence of parts that   *)
(* Resolve concatenates once the physical values are known.                *)
(***************************************************************************)
EXTENDS Integers, Sequences, FiniteSets, TLC

VARIABLES
    stage,      \* props.stage of each stack instance
    pc,         \* number of constructor statements each stack has executed
    template,   \* the resources each stack has declared so far
    region,     \* the region the stack is deployed to
    phase,      \* life cycle of the deployed stack
    cycle,      \* number of deployments started so far
    status,     \* provisioning status of every declared resource
    buckets,    \* physical buckets of the account: name -> set of objects
    clock,      \* current time, in hours since the projection range start
    published,  \* events accepted by the bus
    archived,   \* events stored by the bus archive
    buffer      \* records buffered in the delivery stream

synthVars  == <<stage, pc, template>>
deployVars == <<phase, cycle, status, buckets>>
dataVars   == <<clock, published, archived, buffer>>
vars == <<stage, pc, template, region, phase, cycle, status, buckets,
          clock, published, archived, buffer>>

(***************************************************************************)
(* Bounds                                                                  *)
(***************************************************************************)
MaxStageLen == 2
MaxDeploys == 2
MaxObjects == 1
MaxEvents == 2
MaxInFlight == 1

StageChars == {"d", "/", "-"}
Stacks == {"A", "B"}
Regions == {"eu-west-1", "us-east-1"}

RECURSIVE StringsUpTo(_)
StringsUpTo(n) ==
    IF n = 0 THEN {""}
    ELSE LET shorter == StringsUpTo(n - 1)
         IN  shorter \cup {s \o c : s \in shorter, c \in StageChars}

Stages == StringsUpTo(MaxStageLen)

(***************************************************************************)
(* String helpers                                                          *)
(***************************************************************************)
IsPrefix(p, s) == Len(p) <= Len(s) /\ SubSeq(s, 1, Len(p)) = p

\* s with every occurrence of pat replaced by val, scanning left to right
RECURSIVE ReplaceAll(_, _, _)
ReplaceAll(s, pat, val) ==
    IF Len(s) < Len(pat) \/ Len(pat) = 0 THEN s
    ELSE IF SubSeq(s, 1, Len(pat)) = pat
         THEN val \o ReplaceAll(SubSeq(s, Len(pat) + 1, Len(s)), pat, val)
         ELSE SubSeq(s, 1, 1) \o ReplaceAll(SubSeq(s, 2, Len(s)), pat, val)

RECURSIVE ZeroPad(_, _)
ZeroPad(s, w) == IF Len(s) >= w THEN s ELSE ZeroPad("0" \o s, w)

DigitVal(c) == CHOOSE d \in 0..9 : ToString(d) = c

RECURSIVE ParseNat(_)
ParseNat(s) ==
    IF Len(s) = 0 THEN 0
    ELSE 10 * ParseNat(SubSeq(s, 1, Len(s) - 1)) + DigitVal(SubSeq(s, Len(s), Len(s)))

(***************************************************************************)
(* Tokens: the parts of a property value                                   *)
(***************************************************************************)
Lit(s)        == [kind |-> "lit", id |-> "", text |-> s]
Ref(id)       == [kind |-> "ref", id |-> id, text |-> ""]
GetAtt(id, a) == [kind |-> "att", id |-> id, text |-> a]
Pseudo(n)     == [kind |-> "pseudo", id |-> "", text |-> n]

NoProps == [k \in {} |-> <<>>]

\* logical ids a property value refers to
TokenRefs(parts) ==
    {parts[i].id : i \in {j \in 1..Len(parts) : parts[j].kind \in {"ref", "att"}}}

\* logical ids a resource's properties refer to
RefsOf(res) == UNION {TokenRefs(res.props[k]) : k \in DOMAIN res.props}


(***************************************************************************)
(* The resources the constructor declares                                  *)
(***************************************************************************)
Resource(type, props) ==
    [type |-> type, props |-> props, dependsOn |-> {}, removal |-> "delete"]

StringParameter(name, value) ==
    Resource("AWS::SSM::Parameter", [Name |-> name, Value |-> value])

\* new events.EventBus(this, "Bus", {})
BusDecl == Resource("AWS::Events::EventBus", NoProps)

BusArnDecl(st) ==
    StringParameter(<<Lit("/vimo/" \o st \o "/event-bus-arn")>>,
                    <<GetAtt("Bus", "Arn")>>)

\* eventBus.archive("ArchiveEventLake", {eventPattern})
ArchiveDecl ==
    Resource("AWS::Events::Archive", [SourceArn |-> <<GetAtt("Bus", "Arn")>>])

\* variant: the existence test put on the envelope's detail-type
ArchiveEventPatternOnEnvelope ==
    [source |-> {"custom"}, exists |-> {<<"detail-type">>}]

\* the archive's event pattern: every listed field must match
ArchiveEventPattern ==
    [source |-> {"custom"}, exists |-> {<<"detail", "detail-type">>}]

\* variant: the bucket declared with the destroy policy
EventLakeDeclDestroy == Resource("AWS::S3::Bucket", NoProps)

EventLakeDecl ==
    [Resource("AWS::S3::Bucket", NoProps) EXCEPT !.removal = "retain"]

EventLakeNameDecl(st) ==
    StringParameter(<<Lit("/vimo/" \o st \o "/event-lake-name")>>,
                    <<Ref("EventLake")>>)

\* variant: the stream writing under a fixed prefix instead of the region
DeliveryStreamDeclFixedPrefix ==
    Resource("AWS::KinesisFirehose::DeliveryStream",
             [BucketARN |-> <<GetAtt("EventLake", "Arn")>>,
              Prefix    |-> <<Lit("events/")>>])

DeliveryStreamDecl ==
    Resource("AWS::KinesisFirehose::DeliveryStream",
             [BucketARN |-> <<GetAtt("EventLake", "Arn")>>,
              Prefix    |-> <<Pseudo("AWS::Region"), Lit("/")>>])

\* variant: the database name left without the stage
EventLakeDatabaseDeclUnqualified(st) ==
    Resource("AWS::Glue::Database",
             [CatalogId |-> <<Pseudo("AWS::AccountId")>>,
              Name      |-> <<Lit("event_lake")>>])

EventLakeDatabaseDecl(st) ==
    Resource("AWS::Glue::Database",
             [CatalogId |-> <<Pseudo("AWS::AccountId")>>,
              Name      |-> <<Lit("event_lake_" \o st)>>])

GlueCrawlerRoleDecl ==
    Resource("AWS::IAM::Role",
             [AssumedBy     |-> <<Lit("glue.amazonaws.com")>>,
              ManagedPolicy |-> <<Lit("service-role/AWSGlueServiceRole")>>])

\* eventLake.grantRead(glueRole): a policy attached to the role, on the bucket
GrantReadDecl ==
    Resource("AWS::IAM::Policy",
             [Roles    |-> <<Ref("GlueCrawlerRole")>>,
              Resource |-> <<GetAtt("EventLake", "Arn")>>])

\* variant: the crawler given the database by a hard-coded name
EventLakeCrawlerDeclByName ==
    Resource("AWS::Glue::Crawler",
             [Role           |-> <<GetAtt("GlueCrawlerRole", "Arn")>>,
              DatabaseName   |-> <<Lit("event_lake_dev")>>,
              S3TargetPath   |-> <<Lit("s3://"), Ref("EventLake"), Lit("/")>>,
              UpdateBehavior |-> <<Lit("UPDATE_IN_DATABASE")>>,
              DeleteBehavior |-> <<Lit("DEPRECATE_IN_DATABASE")>>])

EventLakeCrawlerDecl ==
    Resource("AWS::Glue::Crawler",
             [Role           |-> <<GetAtt("GlueCrawlerRole", "Arn")>>,
              DatabaseName   |-> <<Ref("EventLakeDatabase")>>,
              S3TargetPath   |-> <<Lit("s3://"), Ref("EventLake"), Lit("/")>>,
              UpdateBehavior |-> <<Lit("UPDATE_IN_DATABASE")>>,
              DeleteBehavior |-> <<Lit("DEPRECATE_IN_DATABASE")>>])

GlueDatabaseNameDecl(st) ==
    StringParameter(<<Lit("/vimo/" \o st \o "/glue-database-name")>>,
                    <<Ref("EventLakeDatabase")>>)

\* variant: the crawler parameter published under the database's path
GlueCrawlerNameDeclSamePath(st) ==
    StringParameter(<<Lit("/vimo/" \o st \o "/glue-database-name")>>,
                    <<Ref("EventLakeCrawler")>>)

GlueCrawlerNameDecl(st) ==
    StringParameter(<<Lit("/vimo/" \o st \o "/glue-crawler-name")>>,
                    <<Ref("EventLakeCrawler")>>)

\* variant: the projection format written with minutes for the month
EventsTableParametersMinutes ==
    ("projection.enabled" :> <<Lit("true")>>)
    @@ ("projection.datehour.type" :> <<Lit("date")>>)
    @@ ("projection.datehour.format" :> <<Lit("yyyy/mm/dd/HH")>>)
    @@ ("projection.datehour.range" :> <<Lit("2024/01/01/00,NOW")>>)
    @@ ("projection.datehour.interval" :> <<Lit("1")>>)
    @@ ("projection.datehour.interval.unit" :> <<Lit("HOURS")>>)
    @@ ("storage.location.template" :>
            <<Lit("s3://"), Ref("EventLake"), Lit("/"), Pseudo("AWS::Region"),
              Lit("/${datehour}/")>>)
    @@ ("case.insensitive" :> <<Lit("FALSE")>>)

\* tableInput.parameters of the events table
EventsTableParameters ==
    ("projection.enabled" :> <<Lit("true")>>)
    @@ ("projection.datehour.type" :> <<Lit("date")>>)
    @@ ("projection.datehour.format" :> <<Lit("yyyy/MM/dd/HH")>>)
    @@ ("projection.datehour.range" :> <<Lit("2024/01/01/00,NOW")>>)
    @@ ("projection.datehour.interval" :> <<Lit("1")>>)
    @@ ("projection.datehour.interval.unit" :> <<Lit("HOURS")>>)
    @@ ("storage.location.template" :>
            <<Lit("s3://"), Ref("EventLake"), Lit("/"), Pseudo("AWS::Region"),
              Lit("/${datehour}/")>>)
    @@ ("case.insensitive" :> <<Lit("FALSE")>>)

\* variant: the table given the database by a hard-coded name, and no
\* dependency added
EventsTableDeclByName ==
    Resource("AWS::Glue::Table",
             EventsTableParameters
             @@ [CatalogId    |-> <<Pseudo("AWS::AccountId")>>,
                 DatabaseName |-> <<Lit("event_lake_dev")>>,
                 Name         |-> <<Lit("events")>>,
                 TableType    |-> <<Lit("EXTERNAL_TABLE")>>,
                 Location     |-> <<Lit("s3://"), Ref("EventLake"), Lit("/"),
                                    Pseudo("AWS::Region"), Lit("/")>>,
                 PartitionKey |-> <<Lit("datehour")>>])

\* new glue.CfnTable(this, "EventsTable", ...) and eventsTable.addDependency
EventsTableDecl ==
    [Resource("AWS::Glue::Table",
              EventsTableParameters
              @@ [CatalogId    |-> <<Pseudo("AWS::AccountId")>>,
                  DatabaseName |-> <<Ref("EventLakeDatabase")>>,
                  Name         |-> <<Lit("events")>>,
                  TableType    |-> <<Lit("EXTERNAL_TABLE")>>,
                  Location     |-> <<Lit("s3://"), Ref("EventLake"), Lit("/"),
                                     Pseudo("AWS::Region"), Lit("/")>>,
                  PartitionKey |-> <<Lit("datehour")>>])
     EXCEPT !.dependsOn = {"EventLakeDatabase"}]

\* variant: the table parameter publishing the database's handle
GlueTableNameDeclWrongValue(st) ==
    StringParameter(<<Lit("/vimo/" \o st \o "/glue-table-name")>>,
                    <<Ref("EventLakeDatabase")>>)

GlueTableNameDecl(st) ==
    StringParameter(<<Lit("/vimo/" \o st \o "/glue-table-name")>>,
                    <<Ref("EventsTable")>>)

(***************************************************************************)
(* The constructor, one action per statement                               *)
(***************************************************************************)
Done == 14

NoTemplate == [id \in {} |-> BusDecl]

\* stack s is about to run statement k; stacks are built one after the other
At(s, k) ==
    /\ pc[s] = k - 1
    /\ s = "B" => pc["A"] = Done

\* a statement of stack s adds resource id to the stack's template
Declare(s, id, res) ==
    /\ pc' = [pc EXCEPT ![s] = @ + 1]
    /\ template' = [template EXCEPT ![s] = (id :> res) @@ @]
    /\ UNCHANGED <<stage, region, deployVars, dataVars>>

NewBus(s) ==
    /\ At(s, 1)
    /\ Declare(s, "Bus", BusDecl)

NewBusArn(s) ==
    /\ At(s, 2)
    /\ Declare(s, "BusArn", BusArnDecl(stage[s]))

NewArchive(s) ==
    /\ At(s, 3)
    /\ Declare(s, "ArchiveEventLake", ArchiveDecl)

NewEventLake(s) ==
    /\ At(s, 4)
    /\ Declare(s, "EventLake", EventLakeDecl)

NewEventLakeName(s) ==
    /\ At(s, 5)
    /\ Declare(s, "EventLakeName", EventLakeNameDecl(stage[s]))

NewDeliveryStream(s) ==
    /\ At(s, 6)
    /\ Declare(s, "DeliveryStream", DeliveryStreamDecl)

NewEventLakeDatabase(s) ==
    /\ At(s, 7)
    /\ Declare(s, "EventLakeDatabase", EventLakeDatabaseDecl(stage[s]))

NewGlueCrawlerRole(s) ==
    /\ At(s, 8)
    /\ Declare(s, "GlueCrawlerRole", GlueCrawlerRoleDecl)

GrantRead(s) ==
    /\ At(s, 9)
    /\ Declare(s, "GlueCrawlerRoleDefaultPolicy", GrantReadDecl)

NewEventLakeCrawler(s) ==
    /\ At(s, 10)
    /\ Declare(s, "EventLakeCrawler", EventLakeCrawlerDecl)

NewGlueDatabaseName(s) ==
    /\ At(s, 11)
    /\ Declare(s, "GlueDatabaseName", GlueDatabaseNameDecl(stage[s]))

NewGlueCrawlerName(s) ==
    /\ At(s, 12)
    /\ Declare(s, "GlueCrawlerName", GlueCrawlerNameDecl(stage[s]))

NewEventsTable(s) ==
    /\ At(s, 13)
    /\ Declare(s, "EventsTable", EventsTableDecl)

NewGlueTableName(s) ==
    /\ At(s, 14)
    /\ Declare(s, "GlueTableName", GlueTableNameDecl(stage[s]))

\* the template a stack holds once its constructor has returned
Constructed(st) ==
    ("Bus" :> BusDecl)
    @@ ("BusArn" :> BusArnDecl(st))
    @@ ("ArchiveEventLake" :> ArchiveDecl)
    @@ ("EventLake" :> EventLakeDecl)
    @@ ("EventLakeName" :> EventLakeNameDecl(st))
    @@ ("DeliveryStream" :> DeliveryStreamDecl)
    @@ ("EventLakeDatabase" :> EventLakeDatabaseDecl(st))
    @@ ("GlueCrawlerRole" :> GlueCrawlerRoleDecl)
    @@ ("GlueCrawlerRoleDefaultPolicy" :> GrantReadDecl)
    @@ ("EventLakeCrawler" :> EventLakeCrawlerDecl)
    @@ ("GlueDatabaseName" :> GlueDatabaseNameDecl(st))
    @@ ("GlueCrawlerName" :> GlueCrawlerNameDecl(st))
    @@ ("EventsTable" :> EventsTableDecl)
    @@ ("GlueTableName" :> GlueTableNameDecl(st))

LogicalIds == DOMAIN Constructed("")

NotDeployed ==
    /\ phase = "idle"
    /\ cycle = 0
    /\ status = [id \in LogicalIds |-> "absent"]
    /\ buckets = [b \in {} |-> {}]

NoTraffic ==
    /\ clock = 0
    /\ published = {}
    /\ archived = {}
    /\ buffer = {}

SynthInit ==
    /\ stage \in [Stacks -> Stages]
    /\ pc = [s \in Stacks |-> 0]
    /\ template = [s \in Stacks |-> NoTemplate]
    /\ region \in Regions
    /\ NotDeployed
    /\ NoTraffic

SynthNext ==
    \E s \in Stacks :
        \/ NewBus(s)
        \/ NewBusArn(s)
        \/ NewArchive(s)
        \/ NewEventLake(s)
        \/ NewEventLakeName(s)
        \/ NewDeliveryStream(s)
        \/ NewEventLakeDatabase(s)
        \/ NewGlueCrawlerRole(s)
        \/ GrantRead(s)
        \/ NewEventLakeCrawler(s)
        \/ NewGlueDatabaseName(s)
        \/ NewGlueCrawlerName(s)
        \/ NewEventsTable(s)
        \/ NewGlueTableName(s)

SynthSpec == SynthInit /\ [][SynthNext]_vars


(***************************************************************************)
(* Applying the template: the provisioning engine                          *)
(***************************************************************************)
\* resources that must exist before id: those its properties reference and
\* those named by addDependency
Dependencies(tpl, id) == RefsOf(tpl[id]) \cup tpl[id].dependsOn

Dependents(tpl, id) == {r \in DOMAIN tpl : id \in Dependencies(tpl, r)}

\* the generated name of the bucket created by deployment n
PhysicalBucket(n) == "lake" \o ToString(n)

Deployed == template["A"]

DeployStart ==
    /\ pc["A"] = Done
    /\ phase \in {"idle", "deleted"}
    /\ cycle < MaxDeploys
    /\ phase' = "creating"
    /\ cycle' = cycle + 1
    /\ status' = [id \in LogicalIds |-> "absent"]
    /\ UNCHANGED <<synthVars, region, buckets, dataVars>>

StartCreate(id) ==
    /\ phase = "creating"
    /\ Cardinality({r \in LogicalIds : status[r] = "creating"}) < MaxInFlight
    /\ status[id] = "absent"
    /\ \A d \in Dependencies(Deployed, id) : status[d] = "created"
    /\ status' = [status EXCEPT ![id] = "creating"]
    /\ UNCHANGED <<synthVars, region, phase, cycle, buckets, dataVars>>

FinishCreate(id) ==
    /\ phase = "creating"
    /\ status[id] = "creating"
    /\ status' = [status EXCEPT ![id] = "created"]
    /\ buckets' = IF Deployed[id].type = "AWS::S3::Bucket"
                  THEN (PhysicalBucket(cycle) :> {}) @@ buckets
                  ELSE buckets
    /\ UNCHANGED <<synthVars, region, phase, cycle, dataVars>>

DeployComplete ==
    /\ phase = "creating"
    /\ \A id \in LogicalIds : status[id] = "created"
    /\ phase' = "complete"
    /\ UNCHANGED <<synthVars, region, cycle, status, buckets, dataVars>>

TeardownStart ==
    /\ phase = "complete"
    /\ phase' = "deleting"
    /\ UNCHANGED <<synthVars, region, cycle, status, buckets, dataVars>>

\* a resource goes once nothing that depends on it is left; a resource with
\* the retain policy is left in place, and a bucket is only deleted empty
DeleteResource(id) ==
    /\ phase = "deleting"
    /\ status[id] = "created"
    /\ \A r \in Dependents(Deployed, id) : status[r] \in {"deleted", "retained"}
    /\ IF Deployed[id].removal = "retain"
       THEN /\ status' = [status EXCEPT ![id] = "retained"]
            /\ UNCHANGED <<buckets, buffer>>
       ELSE /\ Deployed[id].type = "AWS::S3::Bucket" =>
                   buckets[PhysicalBucket(cycle)] = {}
            /\ status' = [status EXCEPT ![id] = "deleted"]
            /\ buckets' = IF Deployed[id].type = "AWS::S3::Bucket"
                          THEN [b \in DOMAIN buckets \ {PhysicalBucket(cycle)} |->
                                   buckets[b]]
                          ELSE buckets
            /\ buffer' = IF Deployed[id].type = "AWS::KinesisFirehose::DeliveryStream"
                         THEN {}
                         ELSE buffer
    /\ UNCHANGED <<synthVars, region, phase, cycle, clock, published, archived>>

TeardownComplete ==
    /\ phase = "deleting"
    /\ \A id \in LogicalIds : status[id] \in {"deleted", "retained"}
    /\ phase' = "deleted"
    /\ UNCHANGED <<synthVars, region, cycle, status, buckets, dataVars>>

DeployInit ==
    /\ stage \in [Stacks -> {"d"}]
    /\ pc = [s \in Stacks |-> IF s = "A" THEN Done ELSE 0]
    /\ template = [s \in Stacks |->
                      IF s = "A" THEN Constructed(stage[s]) ELSE NoTemplate]
    /\ region \in {"eu-west-1"}
    /\ NotDeployed
    /\ NoTraffic

(***************************************************************************)
(* Deploy-time values                                                      *)
(***************************************************************************)
Account == "111122223333"

RECURSIVE Resolve(_), PhysicalValue(_)

\* the value a token takes in the deployed stack
PhysicalValue(t) ==
    CASE t.kind = "lit" -> t.text
      [] t.kind = "pseudo" -> IF t.text = "AWS::Region" THEN region ELSE Account
      [] t.kind = "ref" ->
            LET res == Deployed[t.id] IN
            CASE res.type = "AWS::S3::Bucket" -> PhysicalBucket(cycle)
              [] res.type \in {"AWS::Glue::Database", "AWS::Glue::Table"} ->
                    Resolve(res.props.Name)
              [] OTHER -> t.id \o "-" \o ToString(cycle)
      [] t.kind = "att" ->
            LET res == Deployed[t.id] IN
            CASE res.type = "AWS::S3::Bucket" ->
                    "arn:aws:s3:::" \o PhysicalBucket(cycle)
              [] OTHER -> "arn:aws:" \o region \o ":" \o Account \o ":"
                              \o t.id \o "-" \o ToString(cycle)

\* a property value with its tokens replaced by their deploy-time values
Resolve(parts) ==
    IF Len(parts) = 0 THEN ""
    ELSE PhysicalValue(Head(parts)) \o Resolve(Tail(parts))

(***************************************************************************)
(* Dates and date formats                                                  *)
(***************************************************************************)
IsLeap(y) == (y % 4 = 0 /\ y % 100 # 0) \/ y % 400 = 0

DaysInMonth(y, m) ==
    CASE m \in {4, 6, 9, 11} -> 30
      [] m = 2 -> IF IsLeap(y) THEN 29 ELSE 28
      [] OTHER -> 31

RECURSIVE AddDays(_, _)
AddDays(date, n) ==
    IF date.d + n <= DaysInMonth(date.y, date.m)
    THEN [date EXCEPT !.d = @ + n]
    ELSE AddDays([date EXCEPT !.d = 1,
                              !.m = IF @ = 12 THEN 1 ELSE @ + 1,
                              !.y = IF date.m = 12 THEN @ + 1 ELSE @],
                 n - (DaysInMonth(date.y, date.m) - date.d + 1))

AddHours(date, k) ==
    AddDays([date EXCEPT !.h = (@ + k) % 24], (date.h + k) \div 24)

DateLeq(a, b) ==
    \/ a.y < b.y
    \/ a.y = b.y /\ a.m < b.m
    \/ a.y = b.y /\ a.m = b.m /\ a.d < b.d
    \/ a.y = b.y /\ a.m = b.m /\ a.d = b.d /\ a.h <= b.h

PatternLetters == {"y", "M", "d", "H", "h", "m"}

\* the value a pattern letter stands for: year, month, day of month, hour
\* of day (0-23), clock hour (1-12), minute of the hour
Field(c, date) ==
    CASE c = "y" -> date.y
      [] c = "M" -> date.m
      [] c = "d" -> date.d
      [] c = "H" -> date.h
      [] c = "h" -> ((date.h + 11) % 12) + 1
      [] c = "m" -> 0

\* the number of leading characters of s equal to c
RECURSIVE RunLength(_, _)
RunLength(s, c) ==
    IF Len(s) = 0 \/ SubSeq(s, 1, 1) # c THEN 0
    ELSE 1 + RunLength(SubSeq(s, 2, Len(s)), c)

\* date written with a pattern: a run of n pattern letters is the field
\* zero-padded to n digits, any other character stands for itself
RECURSIVE FormatDate(_, _)
FormatDate(pat, date) ==
    IF Len(pat) = 0 THEN ""
    ELSE LET c == SubSeq(pat, 1, 1)
             n == RunLength(pat, c)
         IN  IF c \in PatternLetters
             THEN ZeroPad(ToString(Field(c, date)), n)
                      \o FormatDate(SubSeq(pat, n + 1, Len(pat)), date)
             ELSE c \o FormatDate(SubSeq(pat, 2, Len(pat)), date)

NoDate == [y |-> 0, m |-> 1, d |-> 1, h |-> 0]

\* text read with a pattern: a run of n pattern letters reads n digits
RECURSIVE ParseInto(_, _, _)
ParseInto(pat, s, date) ==
    IF Len(pat) = 0 THEN date
    ELSE LET c == SubSeq(pat, 1, 1)
             n == RunLength(pat, c)
             v == ParseNat(SubSeq(s, 1, n))
         IN  IF c \in PatternLetters
             THEN ParseInto(SubSeq(pat, n + 1, Len(pat)), SubSeq(s, n + 1, Len(s)),
                            CASE c = "y" -> [date EXCEPT !.y = v]
                              [] c = "M" -> [date EXCEPT !.m = v]
                              [] c = "d" -> [date EXCEPT !.d = v]
                              [] c = "H" -> [date EXCEPT !.h = v]
                              [] OTHER -> date)
             ELSE ParseInto(SubSeq(pat, 2, Len(pat)), SubSeq(s, 2, Len(s)), date)

ParseDate(pat, s) == ParseInto(pat, s, NoDate)

\* position of the first occurrence of character c in s, 0 if none
IndexOf(s, c) ==
    IF \E i \in 1..Len(s) : SubSeq(s, i, i) = c
    THEN CHOOSE i \in 1..Len(s) :
            /\ SubSeq(s, i, i) = c
            /\ \A j \in 1..(i - 1) : SubSeq(s, j, j) # c
    ELSE 0

(***************************************************************************)
(* The events table: partition projection                                  *)
(***************************************************************************)
TableParam(key) == Resolve(Deployed["EventsTable"].props[key])

ProjectionFormat == TableParam("projection.datehour.format")

ProjectionRange == TableParam("projection.datehour.range")

RangeStart ==
    ParseDate(ProjectionFormat,
              SubSeq(ProjectionRange, 1, IndexOf(ProjectionRange, ",") - 1))

RangeEnd ==
    SubSeq(ProjectionRange, IndexOf(ProjectionRange, ",") + 1, Len(ProjectionRange))

IntervalHours ==
    ParseNat(TableParam("projection.datehour.interval"))
        * (CASE TableParam("projection.datehour.interval.unit") = "HOURS" -> 1
             [] TableParam("projection.datehour.interval.unit") = "DAYS" -> 24
             [] OTHER -> 0)

\* the origin of the clock: 2024-01-01 00:00 UTC
Epoch == [y |-> 2024, m |-> 1, d |-> 1, h |-> 0]

\* the hours (since the origin) the model looks at: day, month, leap-day
\* and year boundaries
Instants == {0, 23, 24, 1416, 8783, 8784}

Now == AddHours(Epoch, clock)

\* the steps of the projection up to NOW, among the hours looked at
ProjectedSteps ==
    LET start == RangeStart
        step  == IntervalHours
        now   == Now
    IN  {k \in Instants :
            /\ RangeEnd = "NOW"
            /\ step > 0
            /\ DateLeq(AddHours(start, k * step), now)}

PartitionValue(k) ==
    FormatDate(ProjectionFormat, AddHours(RangeStart, k * IntervalHours))

ProjectedPartitions == {PartitionValue(k) : k \in ProjectedSteps}

\* where the table says the data of a partition lives
PartitionLocation(value) ==
    ReplaceAll(TableParam("storage.location.template"), "${datehour}", value)

TableLocation == TableParam("Location")

(***************************************************************************)
(* The bus, its archive and the delivery stream                            *)
(***************************************************************************)
Sources == {"custom", "aws.s3"}
DetailTypes == {"order"}
DetailKeys == {"detail-type", "data"}

\* what a producer may write to the stream directly
DirectRecords == {[source |-> "producer", detailType |-> "order", detail |-> {"data"}]}

\* an event on the bus: the envelope always carries source and detail-type
Events == [source : Sources, detailType : DetailTypes, detail : SUBSET DetailKeys]

HasField(e, path) ==
    CASE path = <<"source">> -> TRUE
      [] path = <<"detail-type">> -> TRUE
      [] Len(path) = 2 /\ path[1] = "detail" -> path[2] \in e.detail
      [] OTHER -> FALSE

Matches(pattern, e) ==
    /\ e.source \in pattern.source
    /\ \A path \in pattern.exists : HasField(e, path)

\* rules of the template that target the delivery stream
StreamRules(tpl) ==
    {id \in DOMAIN tpl :
        /\ tpl[id].type = "AWS::Events::Rule"
        /\ "DeliveryStream" \in RefsOf(tpl[id])}

\* time suffix the stream adds to a prefix that has no time expression
StreamTimeFormat == "yyyy/MM/dd/HH"

\* the key prefix of an object the stream writes at the given hour
StreamPrefix(hour) ==
    Resolve(Deployed["DeliveryStream"].props.Prefix)
        \o FormatDate(StreamTimeFormat, AddHours(Epoch, hour)) \o "/"

\* the key prefix of an object in the bucket
ObjectPrefix(o) == StreamPrefix(o.hour)

\* the stream takes records while the bucket holds fewer than MaxObjects
\* objects, so that what it has buffered can always be written
Room ==
    /\ PhysicalBucket(cycle) \in DOMAIN buckets
    /\ Cardinality(buckets[PhysicalBucket(cycle)]) < MaxObjects

\* a record in the stream, with the hour it arrived in
Arrived(r) == [rec |-> r, at |-> clock]

\* the arrival hour of the oldest record of a buffer
OldestArrival(records) ==
    CHOOSE h \in {x.at : x \in records} : \A x \in records : h <= x.at

\* time passes; the stream holds a record for less than an hour, so what is
\* buffered sees at most the next hour begin
Tick ==
    /\ \E t \in Instants :
          /\ t > clock
          /\ buffer # {} => t = clock + 1
          /\ clock' = t
    /\ UNCHANGED <<synthVars, region, deployVars, published, archived, buffer>>

PutEvents(e) ==
    /\ status["Bus"] = "created"
    /\ Cardinality(published) < MaxEvents
    /\ e \notin published
    /\ published' = published \cup {e}
    /\ archived' = IF status["ArchiveEventLake"] = "created"
                      /\ Matches(ArchiveEventPattern, e)
                   THEN archived \cup {e}
                   ELSE archived
    /\ buffer' = IF /\ StreamRules(Deployed) # {}
                    /\ status["DeliveryStream"] = "created"
                    /\ Room
                 THEN buffer \cup {Arrived(e)}
                 ELSE buffer
    /\ UNCHANGED <<synthVars, region, deployVars, clock>>

\* a producer writes to the stream directly
PutRecord(r) ==
    /\ status["DeliveryStream"] = "created"
    /\ Room
    /\ Arrived(r) \notin buffer
    /\ buffer' = buffer \cup {Arrived(r)}
    /\ UNCHANGED <<synthVars, region, deployVars, clock, published, archived>>

\* the stream flushes its buffer into one object of the bucket; the object's
\* key carries the arrival hour of the oldest record in it
Deliver ==
    /\ status["DeliveryStream"] = "created"
    /\ buffer # {}
    /\ PhysicalBucket(cycle) \in DOMAIN buckets
    /\ buckets' = [buckets EXCEPT ![PhysicalBucket(cycle)] = @ \cup
                      {[name    |-> "object-" \o ToString(Cardinality(@) + 1),
                        hour    |-> OldestArrival(buffer),
                        records |-> buffer]}]
    /\ buffer' = {}
    /\ UNCHANGED <<synthVars, region, phase, cycle, status, clock, published, archived>>

DeployNext ==
    \/ DeployStart
    \/ \E id \in LogicalIds : StartCreate(id)
    \/ \E id \in LogicalIds : FinishCreate(id)
    \/ DeployComplete
    \/ TeardownStart
    \/ \E id \in LogicalIds : DeleteResource(id)
    \/ TeardownComplete
    \/ \E r \in DirectRecords : PutRecord(r)
    \/ Deliver

DeploySpec == DeployInit /\ [][DeployNext]_vars

DataInit ==
    /\ stage \in [Stacks -> {"d"}]
    /\ pc = [s \in Stacks |-> IF s = "A" THEN Done ELSE 0]
    /\ template = [s \in Stacks |->
                      IF s = "A" THEN Constructed(stage[s]) ELSE NoTemplate]
    /\ region \in Regions
    /\ phase = "complete"
    /\ cycle = 1
    /\ status = [id \in LogicalIds |-> "created"]
    /\ buckets = (PhysicalBucket(1) :> {})
    /\ NoTraffic

DataNext ==
    \/ Tick
    \/ \E e \in Events : PutEvents(e)
    \/ \E r \in DirectRecords : PutRecord(r)
    \/ Deliver

DataSpec == DataInit /\ [][DataNext]_vars

\* the stream flushes a non-empty buffer within its buffering interval
FairDataSpec == DataSpec /\ WF_vars(Deliver)

\* everything reachable from the resources of set S along Dependencies
RECURSIVE DependencyClosure(_, _)
DependencyClosure(tpl, S) ==
    LET more == S \cup UNION {Dependencies(tpl, r) : r \in S}
    IN  IF more = S THEN S ELSE DependencyClosure(tpl, more)

\* the resources id depends on, directly or not
DependsOnTransitively(tpl, id) == DependencyClosure(tpl, Dependencies(tpl, id))

(***************************************************************************)
(* Published parameters and names                                          *)
(***************************************************************************)
\* the text of a property value; a deploy-time token shows as a placeholder
RECURSIVE Text(_)
Text(parts) ==
    IF Len(parts) = 0 THEN ""
    ELSE LET t == Head(parts)
         IN  (IF t.kind = "lit" THEN t.text
              ELSE "${Token[" \o t.id \o "." \o t.text \o "]}") \o Text(Tail(parts))

Params(tpl) == {id \in DOMAIN tpl : tpl[id].type = "AWS::SSM::Parameter"}

ParamPath(tpl, id) == Text(tpl[id].props.Name)

ParamPaths(tpl) == {ParamPath(tpl, id) : id \in Params(tpl)}

\* what Ref returns for a resource of the type
RefYields(type) ==
    CASE type = "AWS::S3::Bucket" -> "name"
      [] type = "AWS::Glue::Database" -> "name"
      [] type = "AWS::Glue::Crawler" -> "name"
      [] type = "AWS::Glue::Table" -> "name"
      [] type = "AWS::Events::EventBus" -> "name"
      [] type = "AWS::IAM::Role" -> "name"
      [] OTHER -> "id"

\* the kind of handle a token stands for
HandleKind(tpl, t) ==
    CASE t.kind = "ref" -> RefYields(tpl[t.id].type)
      [] t.kind = "att" /\ t.text = "Arn" -> "arn"
      [] OTHER -> "other"

DatabaseName(tpl) == Text(tpl["EventLakeDatabase"].props.Name)

(***************************************************************************)
(* Claims                                                                  *)
(***************************************************************************)
ParamSuffixes ==
    {"event-bus-arn", "event-lake-name", "glue-database-name",
     "glue-crawler-name", "glue-table-name"}

\* C1: within one stack the published parameter paths are pairwise
\* distinct and, once the constructor has returned, are exactly the five
\* paths under /vimo/<stage>/; two stacks built with different stages share
\* no path; every parameter value refers to a resource that the same stack
\* declares.
C1_ParamPathsUniqueAndResolve ==
    /\ \A s \in Stacks :
          /\ \A p, q \in Params(template[s]) :
                p # q => ParamPath(template[s], p) # ParamPath(template[s], q)
          /\ \A p \in Params(template[s]) :
                /\ TokenRefs(template[s][p].props.Value) # {}
                /\ TokenRefs(template[s][p].props.Value) \subseteq DOMAIN template[s]
          /\ pc[s] = Done =>
                ParamPaths(template[s]) =
                    {"/vimo/" \o stage[s] \o "/" \o x : x \in ParamSuffixes}
    /\ stage["A"] # stage["B"] =>
          ParamPaths(template["A"]) \cap ParamPaths(template["B"]) = {}

C1_Witness ==
    /\ pc["A"] = Done /\ pc["B"] = Done
    /\ stage["A"] = "d" /\ stage["B"] = "d/"

\* the discoverable resources: logical id, path suffix, kind of handle
Discoverable ==
    {<<"Bus", "event-bus-arn", "arn">>,
     <<"EventLake", "event-lake-name", "name">>,
     <<"EventLakeDatabase", "glue-database-name", "name">>,
     <<"EventLakeCrawler", "glue-crawler-name", "name">>,
     <<"EventsTable", "glue-table-name", "name">>}

\* parameters of the template whose value refers to resource id
ParamsOf(tpl, id) == {p \in Params(tpl) : id \in TokenRefs(tpl[p].props.Value)}

\* C2: once the constructor has returned, every discoverable resource has
\* exactly one parameter; its key is /vimo/<stage>/<suffix of the resource>
\* and its value is the single token yielding that resource's handle (bus
\* ARN, bucket name, database name, crawler name, table name); every
\* parameter belongs to exactly one discoverable resource.
C2_OneParameterPerResource ==
    \A s \in Stacks : pc[s] = Done =>
        LET tpl == template[s] IN
        /\ \A d \in Discoverable :
              /\ Cardinality(ParamsOf(tpl, d[1])) = 1
              /\ \A p \in ParamsOf(tpl, d[1]) :
                    /\ ParamPath(tpl, p) = "/vimo/" \o stage[s] \o "/" \o d[2]
                    /\ Len(tpl[p].props.Value) = 1
                    /\ HandleKind(tpl, tpl[p].props.Value[1]) = d[3]
        /\ \A p \in Params(tpl) :
              Cardinality({d \in Discoverable : p \in ParamsOf(tpl, d[1])}) = 1

C2_Witness ==
    /\ pc["A"] = Done
    /\ Cardinality(Params(template["A"])) = 5
    /\ stage["A"] = "-d"

\* C3: the database name is event_lake_<stage>; two stacks have the same
\* database name exactly when they were built with the same stage.
C3_DatabaseNameInjective ==
    /\ \A s \in Stacks : "EventLakeDatabase" \in DOMAIN template[s] =>
          DatabaseName(template[s]) = "event_lake_" \o stage[s]
    /\ (\A s \in Stacks : "EventLakeDatabase" \in DOMAIN template[s]) =>
          ((stage["A"] = stage["B"])
              <=> (DatabaseName(template["A"]) = DatabaseName(template["B"])))

C3_Witness ==
    /\ "EventLakeDatabase" \in DOMAIN template["B"]
    /\ stage["A"] = "d-" /\ stage["B"] = "d"
    /\ DatabaseName(template["A"]) # DatabaseName(template["B"])

\* C4: creation of the events table is issued only once creation of the
\* Glue database has completed, whatever order the engine picks.
C4_TableAfterDatabase ==
    status["EventsTable"] \in {"creating", "created"} =>
        status["EventLakeDatabase"] = "created"

C4_Witness ==
    /\ phase = "creating"
    /\ status["EventsTable"] = "creating"
    /\ status["EventLakeDatabase"] = "created"
    /\ status["EventLakeCrawler"] = "absent"

\* C5: the bucket is declared with the retain policy; a bucket that exists
\* keeps existing with all its objects through every step, and when a
\* teardown completes the delivery stream is deleted while the bucket is
\* retained.
C5_BucketRetained ==
    [][/\ Deployed["EventLake"].removal = "retain"
       /\ \A b \in DOMAIN buckets :
             b \in DOMAIN buckets' /\ buckets[b] \subseteq buckets'[b]
       /\ phase' = "deleted" =>
             /\ status'["DeliveryStream"] = "deleted"
             /\ status'["EventLake"] = "retained"
             /\ PhysicalBucket(cycle') \in DOMAIN buckets']_vars

C5_Witness ==
    /\ phase = "deleted"
    /\ cycle = 2
    /\ status["DeliveryStream"] = "deleted"
    /\ buckets[PhysicalBucket(1)] # {}
    /\ buckets[PhysicalBucket(2)] # {}

Started(id) == status[id] \in {"creating", "created"}

\* C10: no resource depends on itself, directly or not; while the stack is
\* being created the engine can always take a step until every resource is
\* created; the crawler is started only after its role, the database and
\* the bucket are created, the delivery stream only after the bucket, and
\* each parameter only after the resource whose handle it stores.
C10_AcyclicAndOrdered ==
    /\ \A id \in DOMAIN Deployed : id \notin DependsOnTransitively(Deployed, id)
    /\ phase = "creating" =>
          \/ \A id \in LogicalIds : status[id] = "created"
          \/ \E id \in LogicalIds : status[id] = "creating"
          \/ \E id \in LogicalIds :
                /\ status[id] = "absent"
                /\ \A d \in Dependencies(Deployed, id) : status[d] = "created"
    /\ Started("EventLakeCrawler") =>
          \A d \in {"GlueCrawlerRole", "EventLakeDatabase", "EventLake"} :
              status[d] = "created"
    /\ Started("DeliveryStream") => status["EventLake"] = "created"
    /\ \A d \in Discoverable :
          \A p \in ParamsOf(Deployed, d[1]) :
              Started(p) => status[d[1]] = "created"

C10_Witness ==
    /\ phase = "complete"
    /\ \A id \in LogicalIds : status[id] = "created"

\* the path <region>/<yyyy>/<MM>/<dd>/<HH>/ of a date
HourPath(date) ==
    region \o "/" \o ZeroPad(ToString(date.y), 4) \o "/" \o ZeroPad(ToString(date.m), 2)
        \o "/" \o ZeroPad(ToString(date.d), 2) \o "/" \o ZeroPad(ToString(date.h), 2)
        \o "/"

BucketUrl == "s3://" \o PhysicalBucket(cycle) \o "/"

\* C6: every partition value the projection generates up to NOW, put in
\* place of ${datehour} in storage.location.template, gives the path
\* s3://<bucket>/<region>/<yyyy>/<MM>/<dd>/<HH>/ of the partition's hour, and
\* that path lies strictly under the table's storage location.
C6_ProjectedPathsUnderLocation ==
    /\ ProjectedSteps # {}
    /\ \A k \in ProjectedSteps :
          LET path == PartitionLocation(PartitionValue(k)) IN
          /\ path = BucketUrl \o HourPath(AddHours(RangeStart, k * IntervalHours))
          /\ IsPrefix(TableLocation, path)
          /\ Len(path) > Len(TableLocation)

C6_Witness ==
    /\ clock = 8784
    /\ "2024/02/29/00" \in ProjectedPartitions
    /\ "2024/12/31/23" \in ProjectedPartitions
    /\ PartitionLocation("2025/01/01/00") \in
          {PartitionLocation(v) : v \in ProjectedPartitions}

\* the location the table gives for the projected partition of an hour, if
\* the projection has one
PartitionLocationsOfHour(hour) ==
    {PartitionLocation(PartitionValue(k)) :
        k \in {j \in ProjectedSteps :
                  AddHours(RangeStart, j * IntervalHours) = AddHours(Epoch, hour)}}

\* C7 as stated: every record the delivery stream has written lies under
\* the prefix <region>/<yyyy>/<MM>/<dd>/<HH>/ of the hour the record was
\* received in, which is the location the table's template gives for the
\* projected partition of that hour.
C7_RecordUnderPrefixOfItsHour ==
    \A o \in buckets[PhysicalBucket(cycle)] :
        \A x \in o.records :
            /\ ObjectPrefix(o) = HourPath(AddHours(Epoch, x.at))
            /\ BucketUrl \o ObjectPrefix(o) \in PartitionLocationsOfHour(x.at)

\* C7 amended: every object the delivery stream has written lies under the
\* prefix <region>/<yyyy>/<MM>/<dd>/<HH>/ of the hour its oldest record was
\* received in (a record buffered with it in the next hour lies there too);
\* that prefix is the location the table's template gives for the projected
\* partition of that hour, so no record lies under a prefix that no
\* projected partition resolves to.
C7_ObjectUnderPrefixOfOldestRecord ==
    \A o \in buckets[PhysicalBucket(cycle)] :
        /\ o.records # {}
        /\ o.hour = OldestArrival(o.records)
        /\ \A x \in o.records : x.at \in {o.hour, o.hour + 1}
        /\ ObjectPrefix(o) = HourPath(AddHours(Epoch, o.hour))
        /\ BucketUrl \o ObjectPrefix(o) \in PartitionLocationsOfHour(o.hour)

C7_Witness ==
    \E o \in buckets[PhysicalBucket(cycle)] :
        /\ o.hour = 8783
        /\ \E x \in o.records : x.at = 8784
        /\ ObjectPrefix(o) = region \o "/2024/12/31/23/"

\* C8 as stated: an event is archived exactly when its source is "custom"
\* and the event has a detail-type field.
C8_ArchivedIffCustomWithDetailType ==
    archived = {e \in published :
                   e.source = "custom" /\ HasField(e, <<"detail-type">>)}

\* C8 amended: an event is archived exactly when its source is "custom" and
\* its detail object contains a detail-type field.
C8_ArchivedIffDetailHasDetailType ==
    archived = {e \in published : e.source = "custom" /\ "detail-type" \in e.detail}

C8_Witness ==
    /\ \E e \in archived : e.source = "custom"
    /\ \E e \in published \ archived :
          e.source = "custom" /\ "detail-type" \notin e.detail

\* C9: every event selected for archival is eventually delivered by the
\* delivery stream into the event-lake bucket.
C9_ArchivedEventuallyInLake ==
    \A e \in Events :
        (e \in archived) ~>
            (\E o \in buckets[PhysicalBucket(cycle)] :
                \E x \in o.records : x.rec = e)

=============================================================================
